---- MODULE Spec2Model ----
(***************************************************************************)
(* Model of the rent-house scraper: one run of main() in its two variants  *)
(* (src/line.py, keyed by address, and src/rent_scraper.py, keyed by       *)
(* name), the state file kept between runs, the listing site and the       *)
(* Telegram endpoint.                                                      *)
(*                                                                         *)
(* Text is a sequence of tokens (a token is a character or an indivisible  *)
(* piece of text), so that trimming, concatenation and joining are         *)
(* computed.  An optional value (a tag that select_one may not find, an    *)
(* attribute that may be missing, a regular-expression match) is <<>> when *)
(* absent and <<v>> when present.                                          *)
(***************************************************************************)
EXTENDS Integers, Sequences, FiniteSets, TLC

VARIABLES
    variant,       \* which script runs: "line" or "rent_scraper"
    site,          \* the listing site: pagination anchors of page 1, cards of each page
    file,          \* content of STATE_FILE
    pc,            \* position of main()
    run,           \* number of the current run
    last_page,     \* main: last_page
    p,             \* main: loop variable of `for p in range(2, last_page + 1)`
    all_listings,  \* main: all_listings
    snapshot,      \* main: snapshot (line.py), a dict in insertion order
    seen,          \* main: seen / seen_names
    newbies,       \* main: newbies
    calls,         \* the calls this run has made to fetch_html, load_seen, requests.post, save_seen
    file0,         \* content of STATE_FILE when the run started
    prev,          \* what the previous run left: its outcome, its site, its delta, the file after it
    BOT_TOKEN,     \* os.getenv("TELEGRAM_BOT_TOKEN")
    CHAT_ID        \* os.getenv("TELEGRAM_CHAT_ID")

vars == <<variant, site, file, pc, run, last_page, p, all_listings, snapshot,
          seen, newbies, calls, file0, prev, BOT_TOKEN, CHAT_ID>>

env == <<BOT_TOKEN, CHAT_ID>>

----------------------------------------------------------------------------
(* Bounds *)

MaxPage == 2       \* the site has pages 1..MaxPage
MaxRuns == 3       \* runs of one behaviour of SpecRuns

----------------------------------------------------------------------------
(* Text *)

Variants == {"line", "rent_scraper"}

SP   == " "
NBSP == "nbsp"     \* U+00A0

\* str.isspace(): U+00A0 is white space for str.strip()
IsSpace(c) == c \in {SP, NBSP}

RECURSIVE LStrip(_)
LStrip(s) == IF s # <<>> /\ IsSpace(Head(s)) THEN LStrip(Tail(s)) ELSE s

RECURSIVE RStrip(_)
RStrip(s) ==
    IF s # <<>> /\ IsSpace(s[Len(s)]) THEN RStrip(SubSeq(s, 1, Len(s) - 1)) ELSE s

\* Tag.get_text(strip=True) of a tag holding one string
get_text_strip(s) == RStrip(LStrip(s))

\* str.replace("\u00a0", " ")
replace_nbsp(s) == [i \in 1..Len(s) |-> IF s[i] = NBSP THEN SP ELSE s[i]]

BASE_URL == <<"https://rent.thurc.org.taipei">>

\* the placeholder text of a missing price or location (src: "\u672a\u77e5")
UNKNOWN == <<"unknown">>

\* the token the status filter looks for (src: "\u62db\u79df")
RECRUIT == "recruit"

Range(s) == {s[i] : i \in 1..Len(s)}

----------------------------------------------------------------------------
(* Ordering of keys: sorted() compares strings by code point *)

CharRank(c) ==
    CASE c = SP  -> 1
      [] c = "A" -> 2
      [] c = "B" -> 3
      [] c = "C" -> 4
      [] OTHER   -> 5

RECURSIVE StrLess(_, _)
StrLess(s, t) ==
    IF t = <<>> THEN FALSE
    ELSE IF s = <<>> THEN TRUE
    ELSE IF CharRank(Head(s)) # CharRank(Head(t))
         THEN CharRank(Head(s)) < CharRank(Head(t))
         ELSE StrLess(Tail(s), Tail(t))

RECURSIVE sorted(_)
sorted(S) ==
    IF S = {} THEN <<>>
    ELSE LET m == CHOOSE x \in S : \A y \in S \ {x} : StrLess(x, y)
         IN  <<m>> \o sorted(S \ {m})

----------------------------------------------------------------------------
(* The listing site *)

Some(v) == <<v>>
None    == <<>>

DETAIL == "/rentHouse/detail/"

\* re.compile(r"/rentHouse/detail/\d+") searched in an href
IsDetailHref(href) == DETAIL \in Range(href)

Anchor(text, href) == [text |-> text, href |-> href]

Card(title, location, badge, price) ==
    [title |-> title, location |-> location, badge |-> badge, price |-> price]

\* key A, padded with white space, every field present
CardA1 == Card(Some(Anchor(<<SP, "A">>, Some(<<DETAIL, "1">>))),
               Some(<<"A", SP>>), Some(<<RECRUIT, "ing">>), Some(<<"1", NBSP, "k">>))
\* key A again, other link, no price
CardA2 == Card(Some(Anchor(<<"A">>, Some(<<DETAIL, "2">>))),
               Some(<<"A">>), Some(<<SP, RECRUIT>>), None)
\* key B
CardB1 == Card(Some(Anchor(<<"B">>, Some(<<DETAIL, "3">>))),
               Some(<<"B">>), Some(<<RECRUIT>>), Some(<<"2">>))
\* identity present but blank
CardBlank == Card(Some(Anchor(<<SP>>, Some(<<DETAIL, "4">>))),
                  Some(<<NBSP>>), Some(<<RECRUIT>>), None)
\* no identity field at all
CardNoIdent == Card(None, None, Some(<<RECRUIT>>), None)
\* key B, not open for rent: no green badge, no location
CardNoBadge == Card(Some(Anchor(<<"B">>, Some(<<DETAIL, "5">>))), None, None, Some(<<"3">>))
\* key A, open for rent, a title without href
CardNoHref == Card(Some(Anchor(<<"A">>, None)), Some(<<"A">>), Some(<<RECRUIT>>), None)
\* key B, a green badge that does not say "recruit", a title linking elsewhere than a detail page
CardOther == Card(Some(Anchor(<<"B">>, Some(<<"/news">>))), Some(<<"B">>), Some(<<"rented">>), None)

Pages ==
    { <<>>,
      <<CardA1, CardB1>>,
      <<CardB1, CardA2>>,
      <<CardA1, CardA2>>,
      <<CardB1>>,
      <<CardBlank, CardNoIdent>>,
      <<CardNoBadge, CardNoHref, CardOther>> }

PageNums == 1..MaxPage

\* the href of a pagination anchor: its page=<digits> parameter, if it has one
AnchorPages == {None} \cup {Some(n) : n \in 0..MaxPage}

AnchorLists ==
    {<<>>} \cup {<<a>> : a \in AnchorPages} \cup {<<a, b>> : a, b \in AnchorPages}

Sites == [anchors : AnchorLists, pages : [PageNums -> Pages]]

----------------------------------------------------------------------------
(* src: get_last_page *)

\* a scan that keeps the number of the anchor it read last
Max_latest(a, b) == b

Max(a, b) == IF a >= b THEN a ELSE b

RECURSIVE get_last_page_from(_, _)
get_last_page_from(anchors, last) ==
    IF anchors = <<>> THEN last
    ELSE LET m == Head(anchors)     \* re.search(r"page=(\d+)", href)
         IN  get_last_page_from(Tail(anchors),
                                IF m # None THEN Max(last, m[1]) ELSE last)

get_last_page(anchors) == get_last_page_from(anchors, 1)

----------------------------------------------------------------------------
(* src: parse_cards *)

\* line.py: the record of one card, or None when the card is skipped
line_card(card) ==
    LET addr_tag   == card.location
        status_tag == card.badge
    IN  IF addr_tag = None \/ status_tag = None THEN None
        ELSE LET address == get_text_strip(addr_tag[1])
                 status  == get_text_strip(status_tag[1])
                 title_a == card.title
                 url     == IF title_a # None /\ title_a[1].href # None
                            THEN BASE_URL \o title_a[1].href[1]
                            ELSE BASE_URL
             IN  IF RECRUIT \notin Range(status) THEN None
                 ELSE Some([address |-> address, status |-> status, url |-> url])

\* rent_scraper.py: the record of one card, or None when the card is skipped
rent_scraper_card(card) ==
    LET a == IF card.title # None /\ card.title[1].href # None
                  /\ IsDetailHref(card.title[1].href[1])
             THEN card.title ELSE None
    IN  IF a = None THEN None
        ELSE LET href  == a[1].href[1]
                 name  == get_text_strip(a[1].text)
                 price == IF card.price # None
                          THEN replace_nbsp(get_text_strip(card.price[1])) ELSE UNKNOWN
                 loc   == IF card.location # None
                          THEN replace_nbsp(get_text_strip(card.location[1])) ELSE UNKNOWN
             IN  Some([name |-> name, location |-> loc, price |-> price,
                       url |-> BASE_URL \o href])

RECURSIVE parse_cards(_, _)
parse_cards(v, cards) ==
    IF cards = <<>> THEN <<>>
    ELSE (IF v = "line" THEN line_card(Head(cards)) ELSE rent_scraper_card(Head(cards)))
         \o parse_cards(v, Tail(cards))

\* the identity key of a record
KeyOf(v, it) == IF v = "line" THEN it.address ELSE it.name

----------------------------------------------------------------------------
(* The state file.  Its content is what json.loads makes of it:            *)
(*   absent    no such file                                                *)
(*   empty     a file of size 0                                            *)
(*   garbage   text that is not JSON                                       *)
(*   scalar    JSON that is not iterable (a number, null, true)            *)
(*   nested    a JSON array holding arrays or objects (unhashable)         *)
(*   array     a JSON array of strings, in the order of the file           *)

Absent  == [kind |-> "absent"]
Empty   == [kind |-> "empty"]
Garbage == [kind |-> "garbage"]
Scalar  == [kind |-> "scalar"]
Nested  == [kind |-> "nested"]
JsonArray(items) == [kind |-> "array", items |-> items]

\* the result of a call: a value returned, or an exception raised
Return(v) == [raised |-> FALSE, value |-> v]
Raise     == [raised |-> TRUE]

\* line.py: `except Exception` around read_text, json.loads and set()
line_load_seen(f) ==
    IF f.kind = "array" THEN Return(Range(f.items)) ELSE Return({})

\* rent_scraper.py: exists()/st_size test, then `except json.JSONDecodeError` only
rent_scraper_load_seen(f) ==
    IF f.kind \in {"absent", "empty"} THEN Return({})
    ELSE IF f.kind = "garbage" THEN Return({})
    ELSE IF f.kind = "array" THEN Return(Range(f.items))
    ELSE Raise      \* TypeError from set(): not caught

load_seen(v, f) == IF v = "line" THEN line_load_seen(f) ELSE rent_scraper_load_seen(f)

\* STATE_FILE.write_text(json.dumps(sorted(seen), ...)): the content of the file afterwards
save_seen(s) == JsonArray(sorted(s))

Files ==
    { Absent, Empty, Garbage, Scalar, Nested,
      JsonArray(<<>>),
      JsonArray(<<<<"A">>>>),
      JsonArray(<<<<"A">>, <<"C">>>>),
      JsonArray(<<<<"B">>, <<"A">>>>) }      \* edited by hand: not sorted

----------------------------------------------------------------------------
(* src: main, the pure steps *)

Keys(v, items) == {KeyOf(v, items[i]) : i \in 1..Len(items)}

\* one step of the dict comprehension: d[it["address"]] = it
\* (a dict keeps the position of the first insertion of a key)
dict_put(d, it) ==
    IF \E j \in 1..Len(d) : d[j].address = it.address
    THEN [j \in 1..Len(d) |-> IF d[j].address = it.address THEN it ELSE d[j]]
    ELSE Append(d, it)

RECURSIVE build_snapshot(_, _)
build_snapshot(d, items) ==
    IF items = <<>> THEN d
    ELSE build_snapshot(dict_put(d, Head(items)), Tail(items))

RECURSIVE Filter(_, _, _)
Filter(v, items, s) ==
    IF items = <<>> THEN <<>>
    ELSE (IF KeyOf(v, Head(items)) \notin s THEN <<Head(items)>> ELSE <<>>)
         \o Filter(v, Tail(items), s)

\* a diff that forgets the test against the seen set
compute_newbies_unfiltered(v, snap, items, s) == IF v = "line" THEN snap ELSE items

\* line.py:         newbies = [snapshot[addr] for addr in snapshot if addr not in seen]
\* rent_scraper.py: newbies = [it for it in all_listings if it["name"] not in seen_names]
compute_newbies(v, snap, items, s) ==
    IF v = "line" THEN Filter(v, snap, s) ELSE Filter(v, items, s)

NL == "\n"

\* the f-string of one record
format_item(v, it) ==
    IF v = "line"
    THEN <<"[house] ">> \o it.address \o <<NL, "[green] ">> \o it.status
         \o <<NL, "[link] ">> \o it.url
    ELSE <<"[house] ">> \o it.name \o <<NL, "[pin] ">> \o it.location
         \o <<NL, "[money] ">> \o it.price \o <<NL, "[link] ">> \o it.url

\* "\n\n".join(...)
RECURSIVE join(_, _)
join(sep, parts) ==
    IF parts = <<>> THEN <<>>
    ELSE IF Len(parts) = 1 THEN parts[1]
    ELSE parts[1] \o sep \o join(sep, Tail(parts))

SEP == <<NL, NL>>

\* a message that carries the first new record only
message_first_only(v, items) == format_item(v, items[1])

message(v, items) == join(SEP, [i \in 1..Len(items) |-> format_item(v, items[i])])

----------------------------------------------------------------------------
(* The calls a run makes to the outside *)

FetchCall(page, ok)     == [op |-> "fetch_html", page |-> page, ok |-> ok]
LoadCall(raised, value) == [op |-> "load_seen", raised |-> raised, value |-> value]
PostCall(text, outcome) == [op |-> "post", text |-> text, outcome |-> outcome]
SaveCall(s)             == [op |-> "save_seen", seen |-> s]

\* requests.post: HTTP 200, another status, or an exception (timeout, connection error)
PostOutcomes == {"http200", "http400", "exception"}

\* before the first run: no outcome, and nothing extracted, notified or delisted yet
NoPrev ==
    [outcome |-> "none", live |-> {}, gone |-> {}, posted |-> {}, always |-> None,
     unsent |-> {}]

----------------------------------------------------------------------------
(* src: main *)

\* a fetch error that is swallowed: main carries on with what it has
AfterFetchError_swallowed == "collect"

\* where main goes when fetch_html raises: the exception leaves main
AfterFetchError == "aborted"

\* where main goes when requests.post raises inside send_telegram
AfterPostError == "aborted"

\* where main goes when load_seen raises
AfterLoadError == "aborted"

\* where main goes after the else branch of `if newbies`
AfterNoNews(v) == IF v = "line" THEN "persist" ELSE "done"

\* a loop that does not advance
range_next_stuck(q) == q

\* the value after q in range(2, last_page + 1)
range_next(q) == q + 1

\* the two persistence policies exchanged, the merging one saving the delta only
SavedSet_exchanged(v, snap, s, news) ==
    IF v = "line" THEN s \cup Keys(v, snap) ELSE Keys(v, news)

\* a save that merges in both variants
SavedSet_merged(v, snap, s, news) == s \cup Keys(v, snap) \cup Keys(v, news)

\* a save that forgets the keys of the delta
SavedSet_stale(v, snap, s, news) == s

\* a save that stores the delta instead of the snapshot
SavedSet_delta_only(v, snap, s, news) == Keys(v, news)

\* the set main hands to save_seen
SavedSet(v, snap, s, news) ==
    IF v = "line" THEN Keys(v, snap) ELSE s \cup Keys(v, news)

\* what os.getenv gives: None when the variable is not set, else its text
EnvValues == {None, Some(<<>>), Some(<<"secret">>)}

\* the truth value of an os.getenv result
Truthy(v) == v # None /\ v[1] # <<>>

\* a test that is content with one of the two secrets
config_ok_either(token, chat) == Truthy(token) \/ Truthy(chat)

\* assert BOT_TOKEN and CHAT_ID
config_ok(token, chat) == Truthy(token) /\ Truthy(chat)

InitAt(sites, files, tokens, chats, pc0) ==
    /\ BOT_TOKEN \in tokens
    /\ CHAT_ID \in chats
    /\ pc = pc0
    /\ variant \in Variants
    /\ site \in sites
    /\ file \in files
    /\ file0 = file
    /\ run = 1
    /\ last_page = 0
    /\ p = 0
    /\ all_listings = <<>>
    /\ snapshot = <<>>
    /\ seen = {}
    /\ newbies = <<>>
    /\ calls = <<>>
    /\ prev = NoPrev

\* the state when main() is entered, both secrets being set
InitRun(sites, files) ==
    InitAt(sites, files, {Some(<<"secret">>)}, {Some(<<"secret">>)}, "start")

Init == InitRun(Sites, Files)

\* the module-level code: load_dotenv(), os.getenv, assert
Import ==
    /\ pc = "import"
    /\ pc' = IF config_ok(BOT_TOKEN, CHAT_ID) THEN "start" ELSE "config_error"
    /\ UNCHANGED <<variant, site, file, run, last_page, p, all_listings, snapshot,
                   seen, newbies, calls, file0, prev>>
    /\ UNCHANGED env

\* fetch_html(page 1), get_last_page(soup1), parse_cards(soup1)
FetchFirstPage ==
    /\ pc = "start"
    /\ \E ok \in BOOLEAN :
         /\ calls' = Append(calls, FetchCall(1, ok))
         /\ IF ok
            THEN /\ last_page' = get_last_page(site.anchors)
                 /\ all_listings' = parse_cards(variant, site.pages[1])
                 /\ p' = 2
                 /\ pc' = "collect"
            ELSE /\ pc' = AfterFetchError
                 /\ UNCHANGED <<last_page, all_listings, p>>
    /\ UNCHANGED <<variant, site, file, run, snapshot, seen, newbies, file0, prev>>
    /\ UNCHANGED env

\* one turn of `for p in range(2, last_page + 1)`
FetchNextPage ==
    /\ pc = "collect"
    /\ p <= last_page
    /\ \E ok \in BOOLEAN :
         /\ calls' = Append(calls, FetchCall(p, ok))
         /\ IF ok
            THEN /\ all_listings' = all_listings \o parse_cards(variant, site.pages[p])
                 /\ p' = range_next(p)
                 /\ pc' = "collect"
            ELSE /\ pc' = AfterFetchError
                 /\ UNCHANGED <<all_listings, p>>
    /\ UNCHANGED <<variant, site, file, run, last_page, snapshot, seen, newbies, file0, prev>>
    /\ UNCHANGED env

\* after the loop: snapshot (line.py), load_seen(), newbies
Diff ==
    /\ pc = "collect"
    /\ p > last_page
    /\ LET snap   == IF variant = "line" THEN build_snapshot(<<>>, all_listings) ELSE <<>>
           loaded == load_seen(variant, file)
       IN  /\ snapshot' = snap
           /\ calls' = Append(calls, LoadCall(loaded.raised, IF loaded.raised THEN {} ELSE loaded.value))
           /\ IF loaded.raised
              THEN /\ pc' = AfterLoadError
                   /\ UNCHANGED <<seen, newbies>>
              ELSE /\ seen' = loaded.value
                   /\ newbies' = compute_newbies(variant, snap, all_listings, loaded.value)
                   /\ pc' = "diffed"
    /\ UNCHANGED <<variant, site, file, run, last_page, p, all_listings, file0, prev>>
    /\ UNCHANGED env

\* `if newbies:` send_telegram(...)
SendTelegram ==
    /\ pc = "diffed"
    /\ newbies # <<>>
    /\ \E outcome \in PostOutcomes :
         /\ calls' = Append(calls, PostCall(message(variant, newbies), outcome))
         /\ pc' = IF outcome = "exception" THEN AfterPostError ELSE "persist"
    /\ UNCHANGED <<variant, site, file, run, last_page, p, all_listings, snapshot,
                   seen, newbies, file0, prev>>
    /\ UNCHANGED env

\* `else:` nothing new
NoNews ==
    /\ pc = "diffed"
    /\ newbies = <<>>
    /\ pc' = AfterNoNews(variant)
    /\ UNCHANGED <<variant, site, file, run, last_page, p, all_listings, snapshot,
                   seen, newbies, calls, file0, prev>>
    /\ UNCHANGED env

\* line.py: save_seen(set(snapshot.keys()))
\* rent_scraper.py: seen_names.update(...); save_seen(seen_names)
Persist ==
    /\ pc = "persist"
    /\ LET s == SavedSet(variant, snapshot, seen, newbies)
       IN  /\ seen' = IF variant = "line" THEN seen ELSE s
           /\ file' = save_seen(s)
           /\ calls' = Append(calls, SaveCall(s))
    /\ pc' = "done"
    /\ UNCHANGED <<variant, site, run, last_page, p, all_listings, snapshot, newbies,
                   file0, prev>>
    /\ UNCHANGED env

Next ==
    \/ FetchFirstPage
    \/ FetchNextPage
    \/ Diff
    \/ SendTelegram
    \/ NoNews
    \/ Persist

Spec == Init /\ [][Next]_vars

----------------------------------------------------------------------------
(* Several runs, one after the other, on a site that changes between runs *)

SiteOf(anchors, first, rest) ==
    [anchors |-> anchors, pages |-> [n \in PageNums |-> IF n = 1 THEN first ELSE rest]]

RunSites ==
    { SiteOf(anchors, first, rest) :
         anchors \in {<<>>, <<None, Some(2)>>},
         first \in {<<>>, <<CardA1, CardB1>>, <<CardB1, CardA2>>, <<CardBlank, CardNoIdent>>},
         rest \in {<<CardA1, CardA2>>, <<CardB1>>} }

InitRuns == InitRun(RunSites, Files)

\* what the run that has ended leaves for the runs after it
RunKeys == Keys(variant, all_listings)

RunReachedDiff == \E i \in 1..Len(calls) : calls[i].op = "load_seen"

\* the keys in the text of the run's POST
RunPostedKeys ==
    IF \E i \in 1..Len(calls) : calls[i].op = "post" THEN Keys(variant, newbies) ELSE {}

\* the keys of a POST of the run that was answered with a status other than 200
RunUnsentKeys ==
    IF \E i \in 1..Len(calls) : calls[i].op = "post" /\ calls[i].outcome = "http400"
    THEN Keys(variant, newbies) ELSE {}

HistoryAfterRun ==
    [outcome |-> pc, site |-> site, file |-> file, newbies |-> newbies,
     \* the keys of the run's snapshot, if the run succeeded
     live |-> IF pc = "done" THEN RunKeys ELSE {},
     \* the keys extracted by an earlier successful run and by no successful run since,
     \* every run in between having succeeded
     gone |-> IF pc = "done" THEN (prev.gone \cup prev.live) \ RunKeys ELSE {},
     \* the keys in the text of a POST of some run so far
     posted |-> prev.posted \cup RunPostedKeys,
     \* the keys extracted by every run so far that reached the diff, if any run did
     always |-> IF RunReachedDiff
                THEN Some(IF prev.always = None THEN RunKeys ELSE prev.always[1] \cap RunKeys)
                ELSE prev.always,
     \* the keys of a POST answered with a status other than 200 that every successful
     \* run since has extracted
     unsent |-> IF pc = "done" THEN (prev.unsent \cap RunKeys) \cup RunUnsentKeys
                ELSE prev.unsent]

\* the scheduler starts the script again; the site may have changed meanwhile
StartRun ==
    /\ pc \in {"done", "aborted"}
    /\ run < MaxRuns
    /\ run' = run + 1
    /\ prev' = HistoryAfterRun
    /\ site' \in RunSites
    /\ file0' = file
    /\ pc' = "start"
    /\ last_page' = 0
    /\ p' = 0
    /\ all_listings' = <<>>
    /\ snapshot' = <<>>
    /\ seen' = {}
    /\ newbies' = <<>>
    /\ calls' = <<>>
    /\ UNCHANGED <<variant, file>>
    /\ UNCHANGED env

NextRuns ==
    \/ Next
    \/ StartRun

SpecRuns == InitRuns /\ [][NextRuns]_vars

----------------------------------------------------------------------------
(* Vocabulary of the properties *)

CallsOf(op) == {i \in 1..Len(calls) : calls[i].op = op}

NumCalls(op) == Cardinality(CallsOf(op))

RunEnded == pc \in {"done", "aborted"}

FetchFailed == \E i \in CallsOf("fetch_html") : ~calls[i].ok

\* every page 1..last_page has been fetched, and no fetch failed
AllPagesFetched ==
    /\ ~FetchFailed
    /\ NumCalls("fetch_html") >= 1
    /\ \A n \in 1..last_page : \E i \in CallsOf("fetch_html") : calls[i].page = n

\* load_seen has returned in this run
Diffed == \E i \in CallsOf("load_seen") : ~calls[i].raised

\* the set load_seen returned in this run
Loaded == UNION {calls[i].value : i \in CallsOf("load_seen")}

\* the identity keys extracted in this run
SnapshotKeys ==
    IF variant = "line" THEN Keys(variant, snapshot) ELSE Keys(variant, all_listings)

DeltaKeys == Keys(variant, newbies)

\* the keys a state file holds
PersistedSet(f) == IF f.kind = "array" THEN Range(f.items) ELSE {}

----------------------------------------------------------------------------
(* C1: in every run in which all page fetches succeed, save_seen is called *)
(* exactly once, after the delta has been computed, whether the delta is   *)
(* empty or not, in both variants.                                         *)
C1_SaveExactlyOnce ==
    /\ NumCalls("save_seen") <= 1
    /\ \A i \in CallsOf("save_seen") : \E j \in CallsOf("load_seen") : j < i
    /\ (RunEnded /\ AllPagesFetched) => NumCalls("save_seen") = 1

----------------------------------------------------------------------------
(* C2: if fetch_html fails on any page, the run aborts, send_telegram and  *)
(* save_seen are never called and the state file is as it was before the   *)
(* run; no state read, notification or write happens before the last page  *)
(* has been fetched successfully.                                          *)
C2_FetchFailAtomicity ==
    /\ FetchFailed =>
         /\ pc = "aborted"
         /\ NumCalls("post") = 0
         /\ NumCalls("save_seen") = 0
         /\ NumCalls("load_seen") = 0
         /\ file = file0
    /\ \A i \in 1..Len(calls) :
         calls[i].op \in {"load_seen", "post", "save_seen"} =>
            /\ \A n \in 1..last_page :
                 \E j \in 1..(i - 1) :
                    calls[j].op = "fetch_html" /\ calls[j].page = n /\ calls[j].ok
            /\ \A j \in CallsOf("fetch_html") : j < i /\ calls[j].ok

\* the fetch of page 2 has failed after page 1 gave listings, the state file holding keys
C2_Witness ==
    /\ pc = "aborted"
    /\ Len(calls) = 2
    /\ calls[2] = FetchCall(2, FALSE)
    /\ all_listings # <<>>
    /\ PersistedSet(file) # {}

----------------------------------------------------------------------------
(* C3: in every run that reaches the diff, a key of the snapshot is in the *)
(* delta if and only if it is not in the set load_seen returned, and no    *)
(* key outside the snapshot is in the delta.                               *)
C3_DeltaExactness ==
    Diffed =>
       /\ \A K \in SnapshotKeys : (K \in DeltaKeys) <=> (K \notin Loaded)
       /\ DeltaKeys \subseteq SnapshotKeys

\* a diff with one key already seen and one key new
C3_Witness ==
    /\ Diffed
    /\ \E K \in SnapshotKeys : K \in Loaded
    /\ \E K \in SnapshotKeys : K \notin Loaded /\ K \in DeltaKeys

----------------------------------------------------------------------------
(* C4, as stated: after every successful run the persisted seen set is     *)
(* exactly the set of keys of the run's snapshot, in both variants.        *)
C4_PersistedIsSnapshot ==
    pc = "done" => PersistedSet(file) = SnapshotKeys

(* C4, amended: after every successful run the persisted seen set is the   *)
(* set of keys of the run's snapshot in line.py, and the union of the      *)
(* loaded seen set and the keys of the snapshot in rent_scraper.py; in     *)
(* both variants no key of the loaded seen set is in the delta.            *)
C4_PersistedPerVariant ==
    pc = "done" =>
       /\ PersistedSet(file) =
             IF variant = "line" THEN SnapshotKeys ELSE Loaded \cup SnapshotKeys
       /\ DeltaKeys \cap Loaded = {}

\* scenario A: a key seen before is gone from the site, another key is new
C4_Witness ==
    /\ pc = "done"
    /\ Loaded = {<<"A">>, <<"C">>}
    /\ SnapshotKeys = {<<"A">>, <<"B">>}
    /\ DeltaKeys = {<<"B">>}

----------------------------------------------------------------------------
(* C5: when two runs, one after the other, both succeed on the same site   *)
(* content, the second run's delta is empty, the second run sends no       *)
(* notification, and the state file holds the same set of keys after the   *)
(* second run as after the first.                                          *)
C5_Idempotence ==
    (pc = "done" /\ prev.outcome = "done" /\ prev.site = site) =>
       /\ newbies = <<>>
       /\ NumCalls("post") = 0
       /\ PersistedSet(file) = PersistedSet(prev.file)

\* the second of two successful runs on a site with listings, the first having notified
C5_Witness ==
    /\ pc = "done"
    /\ prev.outcome = "done"
    /\ prev.site = site
    /\ prev.newbies # <<>>
    /\ SnapshotKeys # {}

----------------------------------------------------------------------------
(* C6: in every run whose fetches all succeed and whose delta is not       *)
(* empty, save_seen is called after send_telegram, whatever the outcome of *)
(* the POST: HTTP 200, another status, or a transport failure or timeout.  *)
C6_NotifyNeverBlocksSave ==
    (RunEnded /\ Diffed /\ newbies # <<>>) =>
       \E i \in CallsOf("post") : \E j \in CallsOf("save_seen") : i < j

----------------------------------------------------------------------------
(* C7: load_seen fails soft on every content of the state file: absent,    *)
(* empty, not JSON, or JSON of the wrong shape, it raises nothing, its     *)
(* result is the empty set, and the run goes on to diff, notify and        *)
(* persist.                                                                *)
C7_LoadFailsSoft ==
    \A i \in CallsOf("load_seen") :
       /\ ~calls[i].raised
       /\ file0.kind # "array" => calls[i].value = {}
       /\ pc # "aborted" \/ NumCalls("post") > 0

----------------------------------------------------------------------------
(* C8: a card whose identity field is missing, or blank after trimming,    *)
(* yields no record, so the empty string is never a key of the snapshot,   *)
(* never in a delta and never written to the state file.                   *)
C8_NoBlankIdentity ==
    /\ <<>> \notin Keys(variant, all_listings)
    /\ <<>> \notin SnapshotKeys
    /\ <<>> \notin DeltaKeys
    /\ \A i \in CallsOf("save_seen") : <<>> \notin calls[i].seen

----------------------------------------------------------------------------
(* C9: the notification POST is issued at most once in a run: once if the  *)
(* delta is not empty, not at all if it is empty; its text holds every     *)
(* record of the delta, joined by a blank line; a non-200 response is      *)
(* never followed by a second POST in the same run.                        *)

\* the pieces of a text between blank lines
RECURSIVE SplitBlank(_, _)
SplitBlank(text, cur) ==
    IF text = <<>> THEN <<cur>>
    ELSE IF Len(text) >= 2 /\ text[1] = NL /\ text[2] = NL
         THEN <<cur>> \o SplitBlank(SubSeq(text, 3, Len(text)), <<>>)
         ELSE SplitBlank(Tail(text), Append(cur, Head(text)))

C9_OneBatchedPost ==
    /\ NumCalls("post") <= 1
    /\ NumCalls("post") = 1 => newbies # <<>>
    /\ (newbies # <<>> /\ pc # "diffed") => NumCalls("post") = 1
    /\ \A i \in CallsOf("post") :
          /\ SplitBlank(calls[i].text, <<>>)
                = [k \in 1..Len(newbies) |-> format_item(variant, newbies[k])]
          /\ calls[i].outcome = "http400" =>
                \A j \in CallsOf("post") : j <= i

\* a delta of two records was posted once, the answer was not 200, and the run ended
C9_Witness ==
    /\ pc = "done"
    /\ Len(newbies) >= 2
    /\ \E i \in CallsOf("post") : calls[i].outcome = "http400"

----------------------------------------------------------------------------
(* C10: when several extracted records of a run share an identity key, the *)
(* run keeps a single record for that key, with the fields of the          *)
(* occurrence that comes last in page and document order, and the          *)
(* notification carries the fields of that last occurrence.                *)

\* the last record of a list with a given key
LastWith(items, K) ==
    items[CHOOSE i \in 1..Len(items) :
             /\ KeyOf(variant, items[i]) = K
             /\ \A j \in (i + 1)..Len(items) : KeyOf(variant, items[j]) # K]

C10_LastWriteWins ==
    Diffed =>
       /\ \A i, j \in 1..Len(newbies) :
             KeyOf(variant, newbies[i]) = KeyOf(variant, newbies[j]) => i = j
       /\ \A i \in 1..Len(newbies) :
             newbies[i] = LastWith(all_listings, KeyOf(variant, newbies[i]))
       /\ \A c \in CallsOf("post") :
             \A i \in 1..Len(newbies) :
                \E b \in Range(SplitBlank(calls[c].text, <<>>)) :
                   b = format_item(variant, LastWith(all_listings, KeyOf(variant, newbies[i])))

----------------------------------------------------------------------------
(* C11: page 1 is fetched first and last_page is computed from page 1      *)
(* before any other request; pages 2..last_page are then fetched in        *)
(* ascending order, each once, none above last_page and none twice; when   *)
(* last_page is 1 exactly one fetch is made.                               *)

\* the calls to fetch_html, in the order they were made
RECURSIVE FetchesOf(_)
FetchesOf(cs) ==
    IF cs = <<>> THEN <<>>
    ELSE (IF Head(cs).op = "fetch_html" THEN <<Head(cs)>> ELSE <<>>) \o FetchesOf(Tail(cs))

C11_PageFetchOrder ==
    LET fs == FetchesOf(calls)
    IN  /\ \A k \in 1..Len(fs) : fs[k].page = k
        /\ \A k \in 1..Len(fs) : calls[k] = fs[k]
        /\ Len(fs) >= 2 => (fs[1].ok /\ Len(fs) <= last_page)
        /\ \A k \in 1..(Len(fs) - 1) : fs[k].ok
        /\ pc = "start" <=> fs = <<>>
        /\ (Len(fs) >= 1 /\ \A k \in 1..Len(fs) : fs[k].ok) => Len(fs) <= last_page
        /\ (NumCalls("load_seen") > 0) => Len(fs) = last_page
        /\ (RunEnded /\ Len(fs) >= 1 /\ fs[1].ok /\ last_page = 1) => Len(fs) = 1

\* a crawl of several pages has been completed
C11_Witness ==
    /\ pc = "diffed"
    /\ last_page >= 2
    /\ NumCalls("fetch_html") = last_page

----------------------------------------------------------------------------
(* The start of the process, with any configuration *)

SitesAtImport == RunSites

InitConfig == InitAt(SitesAtImport, Files, EnvValues, EnvValues, "import")

NextConfig ==
    \/ Import
    \/ Next

SpecConfig == InitConfig /\ [][NextConfig]_vars

----------------------------------------------------------------------------
(* C12: if the bot token or the chat identifier is unset or empty at       *)
(* startup, the process stops before any page fetch, any read or write of  *)
(* the state file and any notification POST.                               *)

Missing(v) == v = None \/ v = Some(<<>>)

C12_ConfigFatalBeforeIO ==
    (Missing(BOT_TOKEN) \/ Missing(CHAT_ID)) =>
       /\ pc \in {"import", "config_error"}
       /\ calls = <<>>
       /\ file = file0

\* the process has stopped on a token that is set and a chat identifier that is empty
C12_Witness ==
    /\ pc = "config_error"
    /\ BOT_TOKEN = Some(<<"secret">>)
    /\ CHAT_ID = Some(<<>>)

----------------------------------------------------------------------------
(* C13: the records of the delta, and so the blocks of the notification    *)
(* text, are in the order in which each key is first seen in the crawl,    *)
(* pages ascending and cards top to bottom; a later duplicate of a key     *)
(* changes the fields of the key's record, not its place.                  *)

\* the keys of a list of records, each at the place of its first occurrence
RECURSIVE FirstSeen(_, _)
FirstSeen(items, acc) ==
    IF items = <<>> THEN acc
    ELSE LET K == KeyOf(variant, Head(items))
         IN  FirstSeen(Tail(items), IF K \in Range(acc) THEN acc ELSE Append(acc, K))

\* the delta the claim describes
FirstSeenDelta ==
    LET unseen(K) == K \notin Loaded
        ks == SelectSeq(FirstSeen(all_listings, <<>>), unseen)
    IN  [i \in 1..Len(ks) |-> LastWith(all_listings, ks[i])]

C13_DeltaInFirstSeenOrder ==
    Diffed =>
       /\ newbies = FirstSeenDelta
       /\ \A c \in CallsOf("post") :
             SplitBlank(calls[c].text, <<>>)
                = [i \in 1..Len(FirstSeenDelta) |-> format_item(variant, FirstSeenDelta[i])]

----------------------------------------------------------------------------
(* C14: get_last_page returns an integer >= 1, the maximum of 1 and every  *)
(* page number found in a pagination anchor; it returns 1 when there is no *)
(* pagination anchor or none carries a page number, and anchors without a  *)
(* page number are ignored.                                                *)

\* the page numbers the pagination anchors of page 1 carry
AnchorNumbers == {a[1] : a \in {b \in Range(site.anchors) : b # None}}

\* page 1 has been fetched and parsed in this run
FirstPageParsed == Len(calls) >= 1 /\ calls[1].op = "fetch_html" /\ calls[1].ok

C14_LastPageIsMax ==
    FirstPageParsed =>
       /\ last_page >= 1
       /\ last_page \in AnchorNumbers \cup {1}
       /\ \A n \in AnchorNumbers : n <= last_page
       /\ AnchorNumbers = {} => last_page = 1

\* the largest page number stands in the first anchor, a smaller one in the second
C14_Witness ==
    /\ FirstPageParsed
    /\ site.anchors = <<Some(2), Some(1)>>
    /\ last_page = 2

----------------------------------------------------------------------------
(* C15, as stated: over successful runs, a key that was in the snapshot of *)
(* a run, absent from the snapshot of a later run and of every run after   *)
(* it until it is in the snapshot again, is in the delta of the run in     *)
(* which it is in the snapshot again, and is notified again.               *)
C15_RelistedIsNotifiedAgain ==
    pc = "done" =>
       \A K \in prev.gone \cap SnapshotKeys :
          K \in DeltaKeys /\ NumCalls("post") = 1

(* C15, amended: such a relisted key is in the delta and notified again in *)
(* line.py, which replaces the seen set; in rent_scraper.py, which merges, *)
(* it stays in the seen set and is not in the delta.                       *)
C15_RelistedPerVariant ==
    pc = "done" =>
       \A K \in prev.gone \cap SnapshotKeys :
          IF variant = "line"
          THEN K \in DeltaKeys /\ NumCalls("post") = 1
          ELSE K \notin DeltaKeys

\* a successful run of line.py in which a key delisted earlier is listed again
C15_Witness ==
    /\ pc = "done"
    /\ variant = "line"
    /\ prev.gone \cap SnapshotKeys # {}

----------------------------------------------------------------------------
(* C16: within one run every identity key occurs at most once in the       *)
(* delta, so the notification text has at most one block per key, also     *)
(* when the key is extracted from several cards or pages of the run.       *)
C16_NoDuplicateInDelta ==
    /\ Len(newbies) = Cardinality(DeltaKeys)
    /\ \A c \in CallsOf("post") :
          Len(SplitBlank(calls[c].text, <<>>)) = Cardinality(DeltaKeys)

----------------------------------------------------------------------------
(* C17: over any sequence of runs, runs that abort on a fetch failure or   *)
(* on a failure of the POST included, the state file being written by the  *)
(* program only, a key that is in the snapshot of every run that reaches   *)
(* the diff is in the text of at most one notification POST.               *)

\* the keys extracted by every run so far that reached the diff, this run included
AlwaysListed ==
    IF RunReachedDiff
    THEN (IF prev.always = None THEN RunKeys ELSE prev.always[1] \cap RunKeys)
    ELSE (IF prev.always = None THEN {} ELSE prev.always[1])

C17_NotifiedAtMostOnce ==
    /\ NumCalls("post") <= 1
    /\ \A K \in AlwaysListed : ~(K \in prev.posted /\ K \in RunPostedKeys)

----------------------------------------------------------------------------
(* C18: when the POST of a run is answered with a status other than 200,   *)
(* the keys of the run's delta are written to the state file by that run   *)
(* all the same; in every later run in which these keys are still listed   *)
(* (every successful run in between has extracted them) they are not in    *)
(* the delta, and no notification is issued for them again.                *)
C18_UndeliveredNotResent ==
    /\ (pc = "done" /\ RunUnsentKeys # {}) =>
          /\ DeltaKeys \subseteq PersistedSet(file)
          /\ \E i \in CallsOf("save_seen") : DeltaKeys \subseteq calls[i].seen
    /\ Diffed => prev.unsent \cap SnapshotKeys \cap DeltaKeys = {}
    /\ prev.unsent \cap SnapshotKeys \cap RunPostedKeys = {}

\* a later successful run lists a key whose notification was answered with another status
C18_Witness ==
    /\ pc = "done"
    /\ prev.outcome = "done"
    /\ prev.unsent \cap SnapshotKeys # {}

====
